---- MODULE Spec2Model ----
(***************************************************************************)
(* Signal decision pipeline of forex-ai-platform-backend:                  *)
(*   - ReinforcementLearningEngine (backend/src/ai/reinforcementLearning.js)*)
(*   - DecisionEngine.processDecision (backend/src/ai/decisionEngine.js)   *)
(*   - SmartMoneyEngine aggregation (src/ai/smartMoneyEngine.js)           *)
(*   - LiveAnalysisService (live analysis cycles)                          *)
(*                                                                         *)
(* Arithmetic.  Timeframe and pattern weights move in steps of the         *)
(* learning rate 0.05 = 1/20, so they are integers counted in twentieths   *)
(* (1.0 = 20, 0.5 = 10, 1.5 = 30).  Model weights are exact rationals      *)
(* <<numerator, denominator>> (the code uses IEEE doubles; the model is    *)
(* the exact-arithmetic reading, "sum to 1.0 up to floating tolerance").   *)
(***************************************************************************)
EXTENDS Integers, Sequences, FiniteSets, TLC

\* ------------------------------------------------------------------------
\* Bounds of the model
\* ------------------------------------------------------------------------
MaxTags == 2
NumUpdaters == 2
MaxLossCounter == 4
MaxCandles == 6
MaxCycles == 3

\* ------------------------------------------------------------------------
\* Program constants of the learner
\* ------------------------------------------------------------------------
LearningRateDen == 20
LearningRate == 1
MinWeight == 10
MaxWeight == 30

Timeframes == {"5M", "15M", "1H", "4H"}

Patterns == {"BULLISH_SWEEP", "BEARISH_SWEEP", "BULLISH_OB", "BEARISH_OB",
             "BULLISH_BOS", "BEARISH_BOS", "BULLISH_CHOCH", "BEARISH_CHOCH"}

Models == {"randomForest", "gradientBoosting", "lstm"}

Results == {"OPEN", "WIN", "LOSS", "BREAKEVEN"}

\* ------------------------------------------------------------------------
\* Exact rationals <<n, d>>, d > 0, in lowest terms
\* ------------------------------------------------------------------------
Abs(x) == IF x < 0 THEN -x ELSE x

RECURSIVE GCD(_, _)
GCD(a, b) == IF b = 0 THEN a ELSE GCD(b, a % b)

Rat(n, d) ==
    LET g == GCD(Abs(n), d)
    IN  IF g = 0 THEN <<0, 1>> ELSE <<n \div g, d \div g>>

RatAdd(x, y) == Rat(x[1] * y[2] + y[1] * x[2], x[2] * y[2])
RatMul(x, y) == Rat(x[1] * y[1], x[2] * y[2])
RatDiv(x, y) == Rat(x[1] * y[2], x[2] * y[1])
RatLeq(x, y) == x[1] * y[2] <= y[1] * x[2]
RatMax(x, y) == IF RatLeq(x, y) THEN y ELSE x
RatMin(x, y) == IF RatLeq(x, y) THEN x ELSE y

MinModelWeight == Rat(1, 10)
MaxModelWeight == Rat(6, 10)

\* ------------------------------------------------------------------------
\* Constructor state
\* ------------------------------------------------------------------------
DefaultModelWeights ==
    [m \in Models |-> IF m = "randomForest" THEN Rat(30, 100) ELSE Rat(35, 100)]

DefaultTimeframeWeights == [tf \in Timeframes |-> 20]

DefaultPatternWeights == [p \in Patterns |-> 20]

\* ------------------------------------------------------------------------
\* Inputs: the trades handed to the learner
\* ------------------------------------------------------------------------
TradeTimeframes == {"5M", "1D"}
TradePatterns == {"BULLISH_OB", "HEAD_SHOULDERS"}
TradeProbabilities == {0, 50, 100}

RECURSIVE SeqsUpTo(_, _)
SeqsUpTo(S, n) ==
    IF n = 0 THEN {<<>>}
    ELSE LET shorter == SeqsUpTo(S, n - 1)
         IN  shorter \cup {Append(s, x) : s \in shorter, x \in S}

Trades ==
    [result : Results, timeframe : TradeTimeframes,
     smartMoneyPatterns : SeqsUpTo(TradePatterns, MaxTags),
     mlProbability : TradeProbabilities]

NoTrade == [result |-> "NONE"]

VARIABLES
    modelWeights,       \* this.modelWeights
    timeframeWeights,   \* this.timeframeWeights
    patternWeights,     \* this.patternWeights
    initialized,        \* this.initialized
    weightsFile,        \* content of model_weights.json
    pendingWrite,       \* snapshot handed to fs.writeFile, not yet on disk
    learnerPc,          \* position of the sequential caller
    call,               \* the trade of the learnFromTrade call in progress
    historyFile,        \* content of trade_history.json: trade id -> result
    upPc,               \* position of each concurrent updateTradeResult call
    upTrade,            \* the closed trade each concurrent call records
    upHistory,          \* each call's local copy of the history
    upRead,             \* weights file content read by initialize, not yet assigned
    upWrite,            \* each call's weights snapshot handed to fs.writeFile
    consecutiveLosses,  \* DecisionEngine.consecutiveLosses
    request,            \* arguments of the processDecision call
    decision,           \* value returned (or the exception raised) by it
    engineInput,        \* argument of a SmartMoneyEngine call
    engineOutput,       \* value returned by it
    isRunning,          \* LiveAnalysisService.isRunning
    analysisInterval,   \* whether the interval timer is armed
    liveSignals,        \* LiveAnalysisService.liveSignals: pair -> stored signal
    cycles,             \* position of each runAnalysisCycle call
    analysesStarted     \* number of analyzePair calls made so far

weightVars == <<modelWeights, timeframeWeights, patternWeights>>

learnerVars == <<pendingWrite, learnerPc, call>>

sharedVars == <<weightVars, initialized, weightsFile>>

concVars == <<historyFile, upPc, upTrade, upHistory, upRead, upWrite>>

decisionVars == <<consecutiveLosses, request, decision>>

structureVars == <<engineInput, engineOutput>>

liveVars == <<isRunning, analysisInterval, liveSignals, cycles, analysesStarted>>

vars == <<sharedVars, learnerVars, concVars, decisionVars, structureVars, liveVars>>

\* ------------------------------------------------------------------------
\* learnFromTrade, the synchronous part
\* ------------------------------------------------------------------------
Clamp(lo, hi, x) == IF x < lo THEN lo ELSE IF x > hi THEN hi ELSE x

RewardAlwaysWin(trade) == 1

Reward(trade) == IF trade.result = "WIN" THEN 1 ELSE -1

AdjustWeightUnclamped(w, reward) == w + reward * LearningRate

AdjustWeight(w, reward) == Clamp(MinWeight, MaxWeight, w + reward * LearningRate)

LearnTimeframe(tfw, trade) ==
    IF trade.timeframe \in DOMAIN tfw
    THEN [tfw EXCEPT ![trade.timeframe] = AdjustWeight(@, Reward(trade))]
    ELSE tfw

RECURSIVE LearnPatterns(_, _, _)
LearnPatterns(pw, tags, reward) ==
    IF tags = <<>> THEN pw
    ELSE LET p == Head(tags)
             next == IF p \in DOMAIN pw
                     THEN [pw EXCEPT ![p] = AdjustWeight(@, reward)]
                     ELSE pw
         IN  LearnPatterns(next, Tail(tags), reward)

RatSum3(mw) ==
    RatAdd(mw["randomForest"], RatAdd(mw["gradientBoosting"], mw["lstm"]))

normalizeModelWeightsSkipped(mw) == mw

normalizeModelWeights(mw) ==
    LET total == RatSum3(mw)
    IN  [m \in Models |-> RatDiv(mw[m], total)]

AdjustModelWeightAdditive(w, mlAdjustment) ==
    RatMax(MinModelWeight, RatMin(MaxModelWeight, RatAdd(w, mlAdjustment)))

AdjustModelWeight(w, mlAdjustment) ==
    RatMax(MinModelWeight, RatMin(MaxModelWeight, RatAdd(w, RatMul(mlAdjustment, w))))

LearnModels(mw, trade) ==
    IF trade.mlProbability # 0
    THEN LET mlAdjustment ==
                 Rat(Reward(trade) * LearningRate * trade.mlProbability,
                     LearningRateDen * 100)
         IN  normalizeModelWeights(
                 [m \in Models |-> AdjustModelWeight(mw[m], mlAdjustment)])
    ELSE mw

\* File contents and writes in flight are records tagged by kind.
MissingFile == [kind |-> "missing"]
CorruptFile == [kind |-> "corrupt"]
NoWrite == [kind |-> "none"]

Snapshot(mw, tfw, pw) ==
    [kind |-> "weights", modelWeights |-> mw, timeframeWeights |-> tfw,
     patternWeights |-> pw]

\* Values of the variables a specification does not use.
ConcIdle ==
    /\ historyFile = <<>>
    /\ upPc = <<>>
    /\ upTrade = <<>>
    /\ upHistory = <<>>
    /\ upRead = <<>>
    /\ upWrite = <<>>

LearnerIdle ==
    /\ pendingWrite = NoWrite
    /\ learnerPc = "unused"
    /\ call = NoTrade

DecisionIdle ==
    /\ consecutiveLosses = 0
    /\ request = [kind |-> "none"]
    /\ decision = [status |-> "NONE"]

NoCall == [kind |-> "none"]

StructureIdle ==
    /\ engineInput = NoCall
    /\ engineOutput = NoCall

LiveIdle ==
    /\ isRunning = FALSE
    /\ analysisInterval = FALSE
    /\ liveSignals = <<>>
    /\ cycles = <<>>
    /\ analysesStarted = 0

\* ------------------------------------------------------------------------
\* Sequential use of the learner (one caller that awaits every call)
\* ------------------------------------------------------------------------
Init ==
    /\ modelWeights = DefaultModelWeights
    /\ timeframeWeights = DefaultTimeframeWeights
    /\ patternWeights = DefaultPatternWeights
    /\ initialized = FALSE
    /\ weightsFile = MissingFile
    /\ pendingWrite = NoWrite
    /\ learnerPc = "idle"
    /\ call = NoTrade
    /\ ConcIdle
    /\ DecisionIdle
    /\ StructureIdle
    /\ LiveIdle

\* initialize() -> loadModelWeights(): a readable file replaces the in-memory
\* weights, a missing or unparseable one leaves them alone.
\* A mapping the parsed file does not have (saved.x is undefined).
Absent == [absent |-> TRUE]

\* saved.x || this.x
OrElse(saved, current) == IF "absent" \in DOMAIN saved THEN current ELSE saved

loadModelWeights ==
    IF weightsFile.kind # "weights"
    THEN UNCHANGED <<modelWeights, timeframeWeights, patternWeights>>
    ELSE /\ modelWeights' = OrElse(weightsFile.modelWeights, modelWeights)
         /\ timeframeWeights' = OrElse(weightsFile.timeframeWeights, timeframeWeights)
         /\ patternWeights' = OrElse(weightsFile.patternWeights, patternWeights)

Initialize ==
    /\ learnerPc = "idle"
    /\ ~initialized
    /\ loadModelWeights
    /\ initialized' = TRUE
    /\ UNCHANGED <<weightsFile, pendingWrite, learnerPc, call>>
    /\ UNCHANGED <<concVars, decisionVars, structureVars, liveVars>>

\* learnFromTrade up to its only await: mutate, normalise, hand the snapshot
\* to fs.writeFile.
LearnFromTrade(trade) ==
    /\ learnerPc = "idle"
    /\ initialized
    /\ call' = trade
    /\ IF trade.result = "OPEN"
       THEN /\ learnerPc' = "returned"
            /\ UNCHANGED <<modelWeights, timeframeWeights, patternWeights,
                           pendingWrite>>
       ELSE /\ timeframeWeights' = LearnTimeframe(timeframeWeights, trade)
            /\ patternWeights' =
                   LearnPatterns(patternWeights, trade.smartMoneyPatterns,
                                 Reward(trade))
            /\ modelWeights' = LearnModels(modelWeights, trade)
            /\ pendingWrite' =
                   Snapshot(modelWeights', timeframeWeights', patternWeights')
            /\ learnerPc' = "saving"
    /\ UNCHANGED <<initialized, weightsFile>>
    /\ UNCHANGED <<concVars, decisionVars, structureVars, liveVars>>

\* saveModelWeights: the write completes and the call returns.
SaveModelWeights ==
    /\ learnerPc = "saving"
    /\ weightsFile' = pendingWrite
    /\ pendingWrite' = NoWrite
    /\ learnerPc' = "returned"
    /\ UNCHANGED <<modelWeights, timeframeWeights, patternWeights, initialized,
                   call>>
    /\ UNCHANGED <<concVars, decisionVars, structureVars, liveVars>>

\* The caller takes the result and is ready for the next outcome.
Return ==
    /\ learnerPc = "returned"
    /\ learnerPc' = "idle"
    /\ call' = NoTrade
    /\ UNCHANGED <<modelWeights, timeframeWeights, patternWeights, initialized,
                   weightsFile, pendingWrite>>
    /\ UNCHANGED <<concVars, decisionVars, structureVars, liveVars>>

\* The process stops and is started again: the constructor state comes back;
\* a write in flight is lost, completed, or torn.
Crash ==
    /\ modelWeights' = DefaultModelWeights
    /\ timeframeWeights' = DefaultTimeframeWeights
    /\ patternWeights' = DefaultPatternWeights
    /\ initialized' = FALSE
    /\ learnerPc' = "idle"
    /\ call' = NoTrade
    /\ pendingWrite' = NoWrite
    /\ IF pendingWrite.kind = "none"
       THEN weightsFile' = weightsFile
       ELSE weightsFile' \in {weightsFile, pendingWrite, CorruptFile}
    /\ UNCHANGED <<concVars, decisionVars, structureVars, liveVars>>

Next ==
    \/ Initialize
    \/ \E trade \in Trades : LearnFromTrade(trade)
    \/ SaveModelWeights
    \/ Return
    \/ Crash

Spec == Init /\ [][Next]_vars

\* ------------------------------------------------------------------------
\* Start-up on a weights file of any content, followed by sequential
\* learning.  A parsed file is an object that has or lacks each of the three
\* mappings; a mapping it has may lack a key or hold a value outside the
\* documented bounds.
\* ------------------------------------------------------------------------
ModelContents ==
    {Absent, DefaultModelWeights, [m \in Models |-> Rat(9, 10)],
     [DefaultModelWeights EXCEPT !["lstm"] = Rat(1, 20)]}

TimeframeContents ==
    {Absent, DefaultTimeframeWeights,
     [DefaultTimeframeWeights EXCEPT !["5M"] = 21],
     [DefaultTimeframeWeights EXCEPT !["5M"] = 90],
     [t \in Timeframes \ {"5M"} |-> 20]}

PatternContents ==
    {Absent, DefaultPatternWeights,
     [DefaultPatternWeights EXCEPT !["BULLISH_OB"] = 19],
     [DefaultPatternWeights EXCEPT !["BULLISH_OB"] = 2],
     [q \in Patterns \ {"BULLISH_OB"} |-> 20]}

PersistedContents ==
    {MissingFile, CorruptFile}
        \cup {Snapshot(mw, tfw, pw) : mw \in ModelContents,
                                     tfw \in TimeframeContents,
                                     pw \in PatternContents}

LoadTrades ==
    [result : {"WIN", "LOSS"}, timeframe : {"5M"},
     smartMoneyPatterns : {<<"BULLISH_OB">>}, mlProbability : {0}]

InitLoad ==
    /\ modelWeights = DefaultModelWeights
    /\ timeframeWeights = DefaultTimeframeWeights
    /\ patternWeights = DefaultPatternWeights
    /\ initialized = FALSE
    /\ weightsFile \in PersistedContents
    /\ pendingWrite = NoWrite
    /\ learnerPc = "idle"
    /\ call = NoTrade
    /\ ConcIdle
    /\ DecisionIdle
    /\ StructureIdle
    /\ LiveIdle

NextLoad ==
    \/ Initialize
    \/ \E trade \in LoadTrades : LearnFromTrade(trade)
    \/ SaveModelWeights
    \/ Return

SpecLoad == InitLoad /\ [][NextLoad]_vars

\* ------------------------------------------------------------------------
\* Concurrent outcome recording: NumUpdaters updateTradeResult calls for
\* different trades on one engine, interleaved at their await points.  A read
\* of a file and the continuation that uses the data are separate steps, and
\* so are the landing of a write on disk and the continuation after it.
\* recalculateStats only derives globalStats from the history and is folded
\* into the steps around it.
\* ------------------------------------------------------------------------
Updaters == 1..NumUpdaters

ConcTrades ==
    [result : {"WIN", "LOSS"}, timeframe : {"5M"},
     smartMoneyPatterns : {<<>>, <<"BULLISH_OB">>},
     mlProbability : {0, 100}]

\* The weights file left by an earlier run that learned one WIN on 5M.
PreviousRunWeights ==
    Snapshot(DefaultModelWeights,
             [DefaultTimeframeWeights EXCEPT !["5M"] = 21],
             DefaultPatternWeights)

Learn(w, trade) ==
    Snapshot(LearnModels(w.modelWeights, trade),
             LearnTimeframe(w.timeframeWeights, trade),
             LearnPatterns(w.patternWeights, trade.smartMoneyPatterns,
                           Reward(trade)))

InitConc ==
    /\ weightsFile = PreviousRunWeights
    /\ initialized \in BOOLEAN
    /\ IF initialized
       THEN /\ modelWeights = PreviousRunWeights.modelWeights
            /\ timeframeWeights = PreviousRunWeights.timeframeWeights
            /\ patternWeights = PreviousRunWeights.patternWeights
       ELSE /\ modelWeights = DefaultModelWeights
            /\ timeframeWeights = DefaultTimeframeWeights
            /\ patternWeights = DefaultPatternWeights
    /\ historyFile = [t \in Updaters |-> "OPEN"]
    /\ upPc = [u \in Updaters |-> "start"]
    /\ upTrade \in [Updaters -> ConcTrades]
    /\ upHistory = [u \in Updaters |-> <<>>]
    /\ upRead = [u \in Updaters |-> NoWrite]
    /\ upWrite = [u \in Updaters |-> NoWrite]
    /\ LearnerIdle
    /\ DecisionIdle
    /\ StructureIdle
    /\ LiveIdle

ConcFrame == UNCHANGED <<learnerVars, decisionVars, structureVars, liveVars>>

\* updateTradeResult -> initialize(): returns at once when initialized,
\* otherwise starts loadTradeHistory.
UpInitialize(u) ==
    /\ upPc[u] = "start"
    /\ upPc' = [upPc EXCEPT ![u] = IF initialized THEN "loadHistory"
                                                   ELSE "initReadWeights"]
    /\ UNCHANGED <<sharedVars, historyFile, upTrade, upHistory, upRead, upWrite>>
    /\ ConcFrame

\* initialize -> loadModelWeights: fs.readFile delivers the file content.
UpReadWeights(u) ==
    /\ upPc[u] = "initReadWeights"
    /\ upRead' = [upRead EXCEPT ![u] = weightsFile]
    /\ upPc' = [upPc EXCEPT ![u] = "initAssignWeights"]
    /\ UNCHANGED <<sharedVars, historyFile, upTrade, upHistory, upWrite>>
    /\ ConcFrame

\* initialize -> loadModelWeights: the continuation assigns what was read.
UpAssignWeights(u) ==
    /\ upPc[u] = "initAssignWeights"
    /\ IF upRead[u].kind = "weights"
       THEN /\ modelWeights' = upRead[u].modelWeights
            /\ timeframeWeights' = upRead[u].timeframeWeights
            /\ patternWeights' = upRead[u].patternWeights
       ELSE UNCHANGED weightVars
    /\ upRead' = [upRead EXCEPT ![u] = NoWrite]
    /\ upPc' = [upPc EXCEPT ![u] = "initStats"]
    /\ UNCHANGED <<initialized, weightsFile, historyFile, upTrade, upHistory,
                   upWrite>>
    /\ ConcFrame

\* initialize: recalculateStats has returned, this.initialized = true.
UpInitialized(u) ==
    /\ upPc[u] = "initStats"
    /\ initialized' = TRUE
    /\ upPc' = [upPc EXCEPT ![u] = "loadHistory"]
    /\ UNCHANGED <<weightVars, weightsFile, historyFile, upTrade, upHistory,
                   upRead, upWrite>>
    /\ ConcFrame

\* updateTradeResult: loadTradeHistory, find the trade, set its result in the
\* local copy and hand the copy to saveTradeHistory.
UpLoadHistory(u) ==
    /\ upPc[u] = "loadHistory"
    /\ upHistory' = [upHistory EXCEPT
                        ![u] = [historyFile EXCEPT ![u] = upTrade[u].result]]
    /\ upPc' = [upPc EXCEPT ![u] = "saveHistory"]
    /\ UNCHANGED <<sharedVars, historyFile, upTrade, upRead, upWrite>>
    /\ ConcFrame

\* saveTradeHistory: the write lands on disk.
UpSaveHistory(u) ==
    /\ upPc[u] = "saveHistory"
    /\ historyFile' = upHistory[u]
    /\ upPc' = [upPc EXCEPT ![u] = "learn"]
    /\ UNCHANGED <<sharedVars, upTrade, upHistory, upRead, upWrite>>
    /\ ConcFrame

\* learnFromTrade up to its await: mutate, normalise, hand the snapshot to
\* fs.writeFile.
UpLearn(u) ==
    /\ upPc[u] = "learn"
    /\ LET new == Learn(Snapshot(modelWeights, timeframeWeights, patternWeights),
                        upTrade[u])
       IN  /\ modelWeights' = new.modelWeights
           /\ timeframeWeights' = new.timeframeWeights
           /\ patternWeights' = new.patternWeights
           /\ upWrite' = [upWrite EXCEPT ![u] = new]
    /\ upPc' = [upPc EXCEPT ![u] = "saveWeights"]
    /\ UNCHANGED <<initialized, weightsFile, historyFile, upTrade, upHistory,
                   upRead>>
    /\ ConcFrame

\* saveModelWeights: this call's write lands on disk; the call then finishes.
UpSaveWeights(u) ==
    /\ upPc[u] = "saveWeights"
    /\ weightsFile' = upWrite[u]
    /\ upWrite' = [upWrite EXCEPT ![u] = NoWrite]
    /\ upPc' = [upPc EXCEPT ![u] = "done"]
    /\ UNCHANGED <<weightVars, initialized, historyFile, upTrade, upHistory,
                   upRead>>
    /\ ConcFrame

NextConc ==
    \E u \in Updaters :
        \/ UpInitialize(u)
        \/ UpReadWeights(u)
        \/ UpAssignWeights(u)
        \/ UpInitialized(u)
        \/ UpLoadHistory(u)
        \/ UpSaveHistory(u)
        \/ UpLearn(u)
        \/ UpSaveWeights(u)

SpecConc == InitConc /\ [][NextConc]_vars

\* ------------------------------------------------------------------------
\* Decision pipeline.  A request is what makeDecision hands to
\* processDecision: the per-timeframe analyses of analyzeMultiTimeframe (a
\* timeframe without candles has no analysis), the candle facts the engine
\* reads itself, and the three external opinions.  Prices are integers in
\* units of 0.001; the trade setup is computed in thousandths of that unit
\* so that the percentage fallbacks (x0.985, x1.03, ...) are exact.
\* ------------------------------------------------------------------------
MinMLProbability == 58
MinRiskReward100 == 200
MaxStopLossPercent100 == 220
MinConfluence == 3
MaxConsecutiveLosses == 3

AnalyzedTimeframes == <<"4H", "1H", "15M", "5M">>

CriteriaNames ==
    {"tf4H_1H_aligned", "tf15M_confirmation", "tf5M_entry", "smartMoneyConfirms",
     "confluenceOk", "mlProbabilityOk", "fundamentalNotAgainst", "notRanging",
     "correlationAligned", "stopLossValid", "riskRewardOk"}

MandatoryNames ==
    {"confluenceOk", "mlProbabilityOk", "smartMoneyConfirms", "notRanging"}

\* JavaScript values of the criteria: true, false, undefined, or an object.
JsBool(b) == IF b THEN "true" ELSE "false"

\* tf?.field of an analysis: the field exists only if the analysis does and
\* analyzeTimeframe produces a field of that name.
Defined(tf, field) == tf.present /\ field \in DOMAIN tf

determineOverallBiasEitherNeutral(tf4H, tf1H) ==
    IF ~tf4H.present \/ ~tf1H.present THEN [kind |-> "null"]
    ELSE LET bias4H == tf4H.trend
             bias1H == tf1H.trend
         IN  IF bias4H = bias1H /\ bias4H # "NEUTRAL"
             THEN [kind |-> "bias", direction |-> bias4H, confidence |-> 95]
             ELSE IF bias4H # "NEUTRAL" /\ bias1H = "NEUTRAL"
             THEN [kind |-> "bias", direction |-> bias4H, confidence |-> 75]
             ELSE IF bias4H = "NEUTRAL" /\ bias1H # "NEUTRAL"
             THEN [kind |-> "bias", direction |-> bias1H, confidence |-> 75]
             ELSE IF bias4H # bias1H /\ bias4H # "NEUTRAL" /\ bias1H # "NEUTRAL"
             THEN [kind |-> "bias", direction |-> "CONFLICTED", confidence |-> 30]
             ELSE [kind |-> "bias", direction |-> "NEUTRAL", confidence |-> 50]

determineOverallBias(tf4H, tf1H) ==
    IF ~tf4H.present \/ ~tf1H.present THEN [kind |-> "null"]
    ELSE LET bias4H == tf4H.trend
             bias1H == tf1H.trend
         IN  IF bias4H = bias1H /\ bias4H # "NEUTRAL"
             THEN [kind |-> "bias", direction |-> bias4H, confidence |-> 95]
             ELSE IF bias4H # "NEUTRAL" /\ bias1H = "NEUTRAL"
             THEN [kind |-> "bias", direction |-> bias4H, confidence |-> 75]
             ELSE IF bias4H # bias1H /\ bias4H # "NEUTRAL" /\ bias1H # "NEUTRAL"
             THEN [kind |-> "bias", direction |-> "CONFLICTED", confidence |-> 30]
             ELSE [kind |-> "bias", direction |-> "NEUTRAL", confidence |-> 50]

CountTrend(timeframes, t) ==
    Cardinality({i \in 1..Len(AnalyzedTimeframes) :
                    /\ timeframes[AnalyzedTimeframes[i]].present
                    /\ timeframes[AnalyzedTimeframes[i]].trend = t})

checkAlignmentMajorityIsFull(timeframes) ==
    LET total == Cardinality({i \in 1..Len(AnalyzedTimeframes) :
                                 timeframes[AnalyzedTimeframes[i]].present})
        bullishCount == CountTrend(timeframes, "BULLISH")
        bearishCount == CountTrend(timeframes, "BEARISH")
    IN  IF bullishCount = total
        THEN [aligned |-> TRUE, direction |-> "BULLISH", confidence |-> Rat(100, 1)]
        ELSE IF bearishCount = total
        THEN [aligned |-> TRUE, direction |-> "BEARISH", confidence |-> Rat(100, 1)]
        ELSE IF bullishCount > bearishCount
        THEN [aligned |-> FALSE, direction |-> "BULLISH",
              confidence |-> Rat(bullishCount * 100, bullishCount)]
        ELSE IF bearishCount > bullishCount
        THEN [aligned |-> FALSE, direction |-> "BEARISH",
              confidence |-> Rat(bearishCount * 100, bearishCount)]
        ELSE [aligned |-> FALSE, direction |-> "NEUTRAL", confidence |-> Rat(50, 1)]

\* checkAlignment; the confidence is the exact rational count / length * 100.
checkAlignment(timeframes) ==
    LET total == Cardinality({i \in 1..Len(AnalyzedTimeframes) :
                                 timeframes[AnalyzedTimeframes[i]].present})
        bullishCount == CountTrend(timeframes, "BULLISH")
        bearishCount == CountTrend(timeframes, "BEARISH")
    IN  IF bullishCount = total
        THEN [aligned |-> TRUE, direction |-> "BULLISH", confidence |-> Rat(100, 1)]
        ELSE IF bearishCount = total
        THEN [aligned |-> TRUE, direction |-> "BEARISH", confidence |-> Rat(100, 1)]
        ELSE IF bullishCount > bearishCount
        THEN [aligned |-> FALSE, direction |-> "BULLISH",
              confidence |-> Rat(bullishCount * 100, total)]
        ELSE IF bearishCount > bullishCount
        THEN [aligned |-> FALSE, direction |-> "BEARISH",
              confidence |-> Rat(bearishCount * 100, total)]
        ELSE [aligned |-> FALSE, direction |-> "NEUTRAL", confidence |-> Rat(50, 1)]

analyzeMultiTimeframe(req) ==
    [timeframes |-> req.tf,
     overallBias |-> determineOverallBias(req.tf["4H"], req.tf["1H"]),
     alignment |-> checkAlignment(req.tf)]

\* tf?.orderBlocks?.some(ob => !ob.mitigated)
HasActiveOrderBlock(tf) ==
    /\ Defined(tf, "orderBlocks")
    /\ \E i \in 1..Len(tf.orderBlocks) : ~tf.orderBlocks[i].mitigated

\* tf?.liquidity?.sweeps?.length > 0
HasSweeps(tf) == Defined(tf, "sweeps") /\ tf.sweeps > 0

\* tf?.fairValueGaps?.length > 0
HasFairValueGaps(tf) == Defined(tf, "fairValueGaps") /\ tf.fairValueGaps > 0

\* tf?.breakOfStructure, as a truth value
HasBreakOfStructure(tf) == Defined(tf, "breakOfStructure")

calculateConfluence(smartMoney, technical, req) ==
    LET tf4H == smartMoney.timeframes["4H"]
        tf1H == smartMoney.timeframes["1H"]
        tf15M == smartMoney.timeframes["15M"]
        tf5M == smartMoney.timeframes["5M"]
        c1 == smartMoney.overallBias.kind = "bias"
              /\ smartMoney.overallBias.direction # "NEUTRAL"
        c2 == RatLeq(Rat(40, 1), smartMoney.alignment.confidence)
        c3 == tf15M.present /\ req.volume15M > 500
        c4 == technical.confidence # 0 /\ technical.confidence > 55
        has4H1HAlign == tf4H.present /\ tf1H.present
                        /\ tf4H.trend = tf1H.trend /\ tf4H.trend # "NEUTRAL"
        has1H15MAlign == tf1H.present /\ tf15M.present
                         /\ tf1H.trend = tf15M.trend /\ tf1H.trend # "NEUTRAL"
        c5 == has4H1HAlign \/ has1H15MAlign
        c6 == HasActiveOrderBlock(tf5M) \/ HasActiveOrderBlock(tf15M)
              \/ HasActiveOrderBlock(tf1H)
        hasFVG == HasFairValueGaps(tf5M) \/ HasFairValueGaps(tf15M)
        hasBOS == HasBreakOfStructure(tf5M) \/ HasBreakOfStructure(tf15M)
        hasSweeps == HasSweeps(tf5M) \/ HasSweeps(tf15M)
        c7 == hasFVG \/ hasBOS \/ hasSweeps
        One1(b) == IF b THEN 1 ELSE 0
    IN  One1(c1) + One1(c2) + One1(c3) + One1(c4) + One1(c5) + One1(c6) + One1(c7)

checkHigherTFAlignment(smartMoney) ==
    LET tf4H == smartMoney.timeframes["4H"]
        tf1H == smartMoney.timeframes["1H"]
    IN  IF ~tf4H.present \/ ~tf1H.present THEN FALSE
        ELSE IF tf4H.trend = "NEUTRAL" /\ tf1H.trend = "NEUTRAL" THEN FALSE
        ELSE IF tf4H.trend # "NEUTRAL" /\ tf1H.trend # "NEUTRAL"
                /\ tf4H.trend # tf1H.trend THEN FALSE
        ELSE IF smartMoney.overallBias.kind = "null"
                \/ smartMoney.overallBias.confidence < 55 THEN FALSE
        ELSE TRUE

check15MConfirmation(smartMoney) ==
    LET tf15M == smartMoney.timeframes["15M"]
    IN  IF ~tf15M.present \/ smartMoney.overallBias.kind = "null" THEN FALSE
        ELSE IF tf15M.trend = "NEUTRAL" THEN TRUE
        ELSE tf15M.trend = smartMoney.overallBias.direction

\* check5MEntry: a || b || c with c read from a field that may not exist.
check5MEntry(smartMoney) ==
    LET tf5M == smartMoney.timeframes["5M"]
    IN  IF ~tf5M.present THEN "false"
        ELSE IF tf5M.institutionalLevel THEN "true"
        ELSE IF Len(tf5M.orderBlocks) > 0 THEN "true"
        ELSE IF ~Defined(tf5M, "fairValueGaps") THEN "undefined"
        ELSE JsBool(tf5M.fairValueGaps > 0)

checkSmartMoneyConfirmation(smartMoney) ==
    LET tf5M == smartMoney.timeframes["5M"]
        tf15M == smartMoney.timeframes["15M"]
        tf1H == smartMoney.timeframes["1H"]
        hasMinConfidence == RatLeq(Rat(50, 1), smartMoney.alignment.confidence)
        hasOrderBlock == HasActiveOrderBlock(tf5M) \/ HasActiveOrderBlock(tf15M)
                         \/ HasActiveOrderBlock(tf1H)
        hasBOS == HasBreakOfStructure(tf5M) \/ HasBreakOfStructure(tf15M)
                  \/ HasBreakOfStructure(tf1H)
        hasSweep == HasSweeps(tf5M) \/ HasSweeps(tf15M) \/ HasSweeps(tf1H)
    IN  IF hasMinConfidence \/ hasOrderBlock THEN "true"
        ELSE IF hasBOS THEN "object"
        ELSE JsBool(hasSweep)

\* checkFundamentalAlignment, for a fundamental argument that is an object.
checkFundamentalAlignment(smartMoney, fundamental) ==
    LET smDirection == IF smartMoney.overallBias.kind = "null" THEN "undefined"
                       ELSE smartMoney.overallBias.direction
    IN  IF fundamental.kind # "full" \/ fundamental.direction = "NEUTRAL" THEN TRUE
        ELSE IF fundamental.confidence > 70
                /\ \/ smDirection = "BUY" /\ fundamental.direction = "SELL"
                   \/ smDirection = "SELL" /\ fundamental.direction = "BUY"
        THEN FALSE
        ELSE TRUE

\* checkNotRanging over the last 20 4H candles: count, highest high, lowest
\* low.  range / ((high + low) / 2) * 100 > 0.5  <=>  400 * range > high + low.
checkNotRanging(candles4H) ==
    IF candles4H.n < 20 THEN TRUE
    ELSE 400 * (candles4H.high - candles4H.low) > candles4H.high + candles4H.low

\* ------------------------------------------------------------------------
\* Trade setup
\* ------------------------------------------------------------------------
\* x.toFixed(2) of the non-negative quotient a / b, in hundredths.
ToFixed2(a, b) == (2 * 100 * a + b) \div (2 * b)

Last3(seq) == IF Len(seq) <= 3 THEN seq ELSE SubSeq(seq, Len(seq) - 2, Len(seq))

RECURSIVE SeqMin(_, _)
SeqMin(seq, acc) ==
    IF seq = <<>> THEN acc
    ELSE SeqMin(Tail(seq), IF Head(seq) < acc THEN Head(seq) ELSE acc)

RECURSIVE SeqMax(_, _)
SeqMax(seq, acc) ==
    IF seq = <<>> THEN acc
    ELSE SeqMax(Tail(seq), IF Head(seq) > acc THEN Head(seq) ELSE acc)

Scaled(seq) == [i \in 1..Len(seq) |-> 1000 * seq[i]]

\* orderBlocks.find(...): of the indices of the blocks that qualify, the first;
\* 0 if none qualifies.
FindIndex(qualifying) ==
    IF qualifying = {} THEN 0
    ELSE CHOOSE i \in qualifying : \A j \in qualifying : i <= j

\* calculateTradeSetup, reached with an overall bias and 5M candles.
calculateTradeSetup(smartMoney, req) ==
    LET direction == smartMoney.overallBias.direction
        currentPrice == 1000 * req.close5M
        tf5M == smartMoney.timeframes["5M"]
        below == IF Defined(tf5M, "below") THEN Scaled(tf5M.below) ELSE <<>>
        above == IF Defined(tf5M, "above") THEN Scaled(tf5M.above) ELSE <<>>
        blocks == IF Defined(tf5M, "orderBlocks") THEN tf5M.orderBlocks ELSE <<>>
        buyStop == IF Len(below) > 0
                   THEN SeqMin(Last3(below), req.close5M * 985)
                   ELSE req.close5M * 985
        buyTake == IF Len(above) > 0 THEN above[Len(above)]
                   ELSE req.close5M * 1030
        BuyBlock(ob) == /\ ob.type = "BULLISH_OB" /\ ~ob.mitigated
                        /\ 1000 * ob.high < currentPrice
                        /\ 1000 * ob.high > buyStop
        buyOB == FindIndex({i \in 1..Len(blocks) : BuyBlock(blocks[i])})
        sellStop == IF Len(above) > 0
                    THEN SeqMax(Last3(above), req.close5M * 1015)
                    ELSE req.close5M * 1015
        sellTake == IF Len(below) > 0 THEN below[Len(below)]
                    ELSE req.close5M * 970
        SellBlock(ob) == /\ ob.type = "BEARISH_OB" /\ ~ob.mitigated
                         /\ 1000 * ob.low > currentPrice
                         /\ 1000 * ob.low < sellStop
        sellOB == FindIndex({i \in 1..Len(blocks) : SellBlock(blocks[i])})
        stopLoss == IF direction = "BUY" THEN buyStop
                    ELSE IF direction = "SELL" THEN sellStop
                    ELSE req.close5M * 985
        takeProfit == IF direction = "BUY" THEN buyTake
                      ELSE IF direction = "SELL" THEN sellTake
                      ELSE req.close5M * 1030
        limit == \/ direction = "BUY" /\ buyOB # 0
                 \/ direction = "SELL" /\ sellOB # 0
        entry == IF direction = "BUY" /\ buyOB # 0 THEN 1000 * blocks[buyOB].high
                 ELSE IF direction = "SELL" /\ sellOB # 0 THEN 1000 * blocks[sellOB].low
                 ELSE currentPrice
        stopDistance == Abs(entry - stopLoss)
        takeDistance == Abs(takeProfit - entry)
    IN  [kind |-> "setup",
         direction |-> direction,
         orderType |-> IF limit THEN "LIMIT" ELSE "MARKET",
         entry |-> entry,
         stopLoss |-> stopLoss,
         takeProfit |-> takeProfit,
         riskReward |-> IF stopDistance > 0 THEN ToFixed2(takeDistance, stopDistance)
                        ELSE 0,
         stopLossPercent |-> ToFixed2(100 * stopDistance, entry)]

validateStopLoss(tradeSetup) == ~(tradeSetup.stopLossPercent > MaxStopLossPercent100)

\* ------------------------------------------------------------------------
\* processDecision
\* ------------------------------------------------------------------------
NoSetup == [kind |-> "none"]

\* Object.keys(criteria).filter(key => criteria[key] === false)
FailedCriteria(criteria) == {k \in DOMAIN criteria : criteria[k] = "false"}

\* criteria values that are === true
MetCount(criteria, names) == Cardinality({k \in names : criteria[k] = "true"})

generateRejectionDecision(criteria, evaluated) ==
    [status |-> "REJECTED",
     failedCriteria |-> FailedCriteria(criteria),
     criteria |-> criteria,
     evaluated |-> evaluated,
     setup |-> NoSetup]

generateTradeSignal(criteria, tradeSetup) ==
    [status |-> "APPROVED",
     failedCriteria |-> {},
     criteria |-> criteria,
     evaluated |-> DOMAIN criteria,
     setup |-> tradeSetup]

\* A TypeError escapes processDecision.
Thrown == [status |-> "THROWN", failedCriteria |-> {}, criteria |-> <<>>,
           evaluated |-> {}, setup |-> NoSetup]

\* generateTradeSignal dereferences fundamental.fundamentalBias and
\* technical.indicators.institutionalTrend (absent from the fallback result of
\* TechnicalMLEngine.analyze).
SignalThrows(req) == req.fundamental.kind # "full" \/ req.technical.fallback

\* The criteria object as processDecision first builds it (stopLossValid and
\* riskRewardOk hold their placeholders).
Criteria(req) ==
    LET smartMoney == analyzeMultiTimeframe(req)
        technical == req.technical
        confluenceScore == calculateConfluence(smartMoney, technical, req)
    IN  [k \in CriteriaNames |->
            CASE k = "tf4H_1H_aligned" -> JsBool(checkHigherTFAlignment(smartMoney))
              [] k = "tf15M_confirmation" -> JsBool(check15MConfirmation(smartMoney))
              [] k = "tf5M_entry" -> check5MEntry(smartMoney)
              [] k = "smartMoneyConfirms" -> checkSmartMoneyConfirmation(smartMoney)
              [] k = "confluenceOk" -> JsBool(confluenceScore >= MinConfluence)
              [] k = "mlProbabilityOk" ->
                     JsBool(technical.confidence >= MinMLProbability)
              [] k = "fundamentalNotAgainst" ->
                     JsBool(checkFundamentalAlignment(smartMoney, req.fundamental))
              [] k = "notRanging" -> JsBool(checkNotRanging(req.candles4H))
              [] k = "correlationAligned" -> JsBool(req.correlation.allowTrade)
              [] k = "stopLossValid" -> "true"
              [] k = "riskRewardOk" -> "false"]

\* The criteria object after the trade setup has been validated.
FinalCriteria(req) ==
    LET tradeSetup == calculateTradeSetup(analyzeMultiTimeframe(req), req)
    IN  [Criteria(req) EXCEPT
            !["stopLossValid"] = JsBool(validateStopLoss(tradeSetup)),
            !["riskRewardOk"] = JsBool(tradeSetup.riskReward >= MinRiskReward100)]

CeilingReachedLate(losses) == losses > MaxConsecutiveLosses

CeilingReached(losses) == losses >= MaxConsecutiveLosses

MandatoryGateFailsBelowOne(passedMandatoryCount) == passedMandatoryCount < 1

MandatoryGateFails(passedMandatoryCount) == passedMandatoryCount < 2

FinalCheckFailsUnlessAll(finalMetCount, total) == finalMetCount < total

FinalCheckFails(finalMetCount, total) == finalMetCount * 100 < 50 * total

\* criteria{...} dereferences fundamental and correlation.
CriteriaThrow(req) ==
    req.fundamental.kind = "undefined" \/ req.correlation.kind = "undefined"

\* calculateTradeSetup dereferences smartMoney.overallBias and the last 5M
\* candle.
SetupThrows(req) ==
    analyzeMultiTimeframe(req).overallBias.kind = "null" \/ ~req.tf["5M"].present

processDecision(req, losses) ==
    IF CeilingReached(losses)
    THEN generateRejectionDecision(<<>>, {})
    ELSE IF CriteriaThrow(req) THEN Thrown
    ELSE IF MandatoryGateFails(MetCount(Criteria(req), MandatoryNames))
    THEN generateRejectionDecision(Criteria(req),
                                   CriteriaNames \ {"stopLossValid", "riskRewardOk"})
    ELSE IF SetupThrows(req) THEN Thrown
    ELSE IF FinalCheckFails(MetCount(FinalCriteria(req), CriteriaNames),
                            Cardinality(CriteriaNames))
    THEN generateRejectionDecision(FinalCriteria(req), CriteriaNames)
    ELSE IF SignalThrows(req) THEN Thrown
    ELSE generateTradeSignal(FinalCriteria(req),
                             calculateTradeSetup(analyzeMultiTimeframe(req), req))

\* ------------------------------------------------------------------------
\* Requests
\* ------------------------------------------------------------------------
Trends == {"BULLISH", "BEARISH", "NEUTRAL"}

TfAbsent == [present |-> FALSE]

\* Shapes of a timeframe analysis as analyzeTimeframe returns it (fields
\* liquidity.sweeps/below/above flattened; fvg and bos as counts).
Bare ==
    [present |-> TRUE, trend |-> "NEUTRAL", orderBlocks |-> <<>>, sweeps |-> 0,
     institutionalLevel |-> FALSE, below |-> <<>>, above |-> <<>>,
     fvg |-> 0, bos |-> 0]

MitigatedOB ==
    [Bare EXCEPT !.orderBlocks = <<[type |-> "BULLISH_OB", mitigated |-> TRUE,
                                    high |-> 1080, low |-> 1079]>>]

ActiveOB ==
    [Bare EXCEPT !.orderBlocks = <<[type |-> "BULLISH_OB", mitigated |-> FALSE,
                                    high |-> 1080, low |-> 1079]>>,
                 !.institutionalLevel = TRUE,
                 !.below = <<1070>>, !.above = <<1090>>]

Swept ==
    [Bare EXCEPT !.sweeps = 1, !.institutionalLevel = TRUE,
                 !.below = <<1082, 1083>>, !.above = <<1085>>,
                 !.fvg = 1, !.bos = 1]

\* A fair-value gap and a break of structure, no liquidity sweep.
Gapped == [Bare EXCEPT !.fvg = 1, !.bos = 1]

WithTrend(shape, trend) == [shape EXCEPT !.trend = trend]

NoCandles == [n |-> 0, high |-> 0, low |-> 0]
ShortWindow == [n |-> 19, high |-> 1085, low |-> 1084]
RangingWindow == [n |-> 20, high |-> 1089, low |-> 1084]
TrendingWindow == [n |-> 20, high |-> 1090, low |-> 1084]

Options4H ==
    {<<TfAbsent, NoCandles>>, <<WithTrend(Bare, "BULLISH"), ShortWindow>>}
    \cup {<<WithTrend(Bare, t), w>> : t \in Trends,
                                      w \in {RangingWindow, TrendingWindow}}

Options1H ==
    {TfAbsent} \cup {WithTrend(sh, t) : sh \in {Bare, ActiveOB}, t \in Trends}

Options15M ==
    {<<TfAbsent, 0>>} \cup {<<WithTrend(Bare, t), v>> : t \in Trends, v \in {500, 501}}

Options5M ==
    {<<TfAbsent, 0>>, <<WithTrend(Bare, "BULLISH"), 1084>>}
    \cup {<<sh, 1084>> : sh \in {Bare, MitigatedOB, ActiveOB, Swept, Gapped}}

\* TechnicalMLEngine.analyze: a prediction, or the fallback of its catch.
Technicals ==
    {[confidence |-> 50, fallback |-> TRUE]}
    \cup {[confidence |-> c, fallback |-> FALSE] : c \in {55, 56, 58}}

\* FundamentalEngine.analyze
Fundamentals ==
    {[kind |-> "full", direction |-> "NEUTRAL", confidence |-> 10],
     [kind |-> "full", direction |-> "SELL", confidence |-> 71],
     [kind |-> "full", direction |-> "BUY", confidence |-> 71]}

\* CorrelationEngine.analyze
Correlations == {[kind |-> "full", allowTrade |-> b] : b \in BOOLEAN}

MkRequest(o4H, o1H, o15M, o5M, technical, fundamental, correlation) ==
    [kind |-> "request",
     tf |-> [t \in Timeframes |->
                IF t = "4H" THEN o4H[1]
                ELSE IF t = "1H" THEN o1H
                ELSE IF t = "15M" THEN o15M[1]
                ELSE o5M[1]],
     candles4H |-> o4H[2],
     volume15M |-> o15M[2],
     close5M |-> o5M[2],
     technical |-> technical,
     fundamental |-> fundamental,
     correlation |-> correlation]

\* What makeDecision can hand to processDecision.
PipelineRequests ==
    {MkRequest(a, b, c, d, t, f, k) :
        a \in Options4H, b \in Options1H, c \in Options15M, d \in Options5M,
        t \in Technicals, f \in Fundamentals, k \in Correlations}

NoDecision == [status |-> "NONE"]

LearnerUnused ==
    /\ modelWeights = DefaultModelWeights
    /\ timeframeWeights = DefaultTimeframeWeights
    /\ patternWeights = DefaultPatternWeights
    /\ initialized = FALSE
    /\ weightsFile = MissingFile
    /\ LearnerIdle
    /\ ConcIdle

\* new DecisionEngine(), then makeDecision for one analysis cycle.
InitDecision ==
    /\ consecutiveLosses = 0
    /\ request \in PipelineRequests
    /\ decision = NoDecision
    /\ LearnerUnused
    /\ StructureIdle
    /\ LiveIdle

ProcessDecisionCountingRejections ==
    /\ request.kind = "request"
    /\ decision = NoDecision
    /\ decision' = processDecision(request, consecutiveLosses)
    /\ consecutiveLosses' =
           IF decision'.status = "REJECTED" /\ consecutiveLosses < MaxLossCounter
           THEN consecutiveLosses + 1 ELSE consecutiveLosses
    /\ UNCHANGED request
    /\ UNCHANGED <<sharedVars, learnerVars, concVars, structureVars, liveVars>>

ProcessDecision ==
    /\ request.kind = "request"
    /\ decision = NoDecision
    /\ decision' = processDecision(request, consecutiveLosses)
    /\ UNCHANGED <<consecutiveLosses, request>>
    /\ UNCHANGED <<sharedVars, learnerVars, concVars, structureVars, liveVars>>

NextDecision == ProcessDecision

SpecDecision == InitDecision /\ [][NextDecision]_vars

\* ------------------------------------------------------------------------
\* processDecision called directly by an embedding application: the public
\* field consecutiveLosses holds whatever the application has set, and the
\* optional opinions may be missing (undefined, or an object without
\* fundamentalBias).
\* ------------------------------------------------------------------------
DirectOptions4H ==
    {<<TfAbsent, NoCandles>>, <<WithTrend(Bare, "BULLISH"), TrendingWindow>>,
     <<WithTrend(Bare, "BEARISH"), RangingWindow>>}

DirectOptions1H == {TfAbsent, WithTrend(ActiveOB, "BULLISH"), Bare}

DirectOptions15M == {<<TfAbsent, 0>>, <<Bare, 501>>}

DirectOptions5M == {<<TfAbsent, 0>>, <<Bare, 1084>>, <<ActiveOB, 1084>>}

DirectFundamentals ==
    Fundamentals \cup {[kind |-> "undefined"], [kind |-> "empty"]}

DirectCorrelations == Correlations \cup {[kind |-> "undefined"]}

DirectRequests ==
    {MkRequest(a, b, c, d, t, f, k) :
        a \in DirectOptions4H, b \in DirectOptions1H, c \in DirectOptions15M,
        d \in DirectOptions5M, t \in Technicals, f \in DirectFundamentals,
        k \in DirectCorrelations}

InitDirect ==
    /\ consecutiveLosses \in 0..MaxLossCounter
    /\ request \in DirectRequests
    /\ decision = NoDecision
    /\ LearnerUnused
    /\ StructureIdle
    /\ LiveIdle

SpecDirect == InitDirect /\ [][NextDecision]_vars

\* ------------------------------------------------------------------------
\* The application: one DecisionEngine that decides cycle after cycle and one
\* learner that is told the outcome of trades (app.js:29-30, 226).
\* ------------------------------------------------------------------------
TradingRequests ==
    {MkRequest(a, Bare, <<TfAbsent, 0>>, <<Bare, 1084>>, t,
               [kind |-> "full", direction |-> "NEUTRAL", confidence |-> 10],
               [kind |-> "full", allowTrade |-> FALSE]) :
        a \in {<<WithTrend(Bare, "BULLISH"), TrendingWindow>>,
               <<WithTrend(Bare, "BEARISH"), RangingWindow>>},
        t \in {[confidence |-> c, fallback |-> FALSE] : c \in {55, 58}}}

OutcomeTrades ==
    [result : {"WIN", "LOSS"}, timeframe : {"5M"}, smartMoneyPatterns : {<<>>},
     mlProbability : {50}]

InitTrading ==
    /\ consecutiveLosses = 0
    /\ request \in TradingRequests
    /\ decision = NoDecision
    /\ modelWeights = DefaultModelWeights
    /\ timeframeWeights = DefaultTimeframeWeights
    /\ patternWeights = DefaultPatternWeights
    /\ initialized = FALSE
    /\ weightsFile = MissingFile
    /\ pendingWrite = NoWrite
    /\ learnerPc = "idle"
    /\ call = NoTrade
    /\ ConcIdle
    /\ StructureIdle
    /\ LiveIdle

\* The next analysis cycle calls makeDecision again on the same engine.
NextCycle(req) ==
    /\ decision # NoDecision
    /\ request' = req
    /\ decision' = NoDecision
    /\ UNCHANGED consecutiveLosses
    /\ UNCHANGED <<sharedVars, learnerVars, concVars, structureVars, liveVars>>

NextTrading ==
    \/ ProcessDecision
    \/ \E req \in TradingRequests : NextCycle(req)
    \/ Initialize
    \/ \E trade \in OutcomeTrades : LearnFromTrade(trade)
    \/ SaveModelWeights
    \/ Return

SpecTrading == InitTrading /\ [][NextTrading]_vars

\* ------------------------------------------------------------------------
\* LiveAnalysisService: analysis cycles started by start() and by the
\* interval timer; each cycle analyses the pairs one after the other, and
\* each analysis awaits the market data and then the decision.
\* ------------------------------------------------------------------------
\* The first pairs of this.pairs.
LivePairs == <<"EURUSD", "GBPUSD">>

CycleIds == 1..MaxCycles

\* liveSignals.get(pair) before anything was stored.
NoSignal == [cycle |-> 0, started |-> 0]

NotStarted == [pc |-> "unstarted", index |-> 0, started |-> 0]

InitLive ==
    /\ isRunning = FALSE
    /\ analysisInterval = FALSE
    /\ liveSignals = [p \in {LivePairs[i] : i \in 1..Len(LivePairs)} |-> NoSignal]
    /\ cycles = [c \in CycleIds |-> NotStarted]
    /\ analysesStarted = 0
    /\ LearnerUnused
    /\ DecisionIdle
    /\ StructureIdle

LiveFrame ==
    UNCHANGED <<sharedVars, learnerVars, concVars, decisionVars, structureVars>>

\* The cycle that the next call of runAnalysisCycle is.
NewCycle == Cardinality({c \in CycleIds : cycles[c].pc # "unstarted"}) + 1

\* analyzePair(pair) up to its first await: the analysis of the pair at
\* `index` has started and waits for getMarketData.
analyzePair(c, index) ==
    /\ cycles' = [cycles EXCEPT ![c] = [pc |-> "marketData", index |-> index,
                                        started |-> analysesStarted + 1]]
    /\ analysesStarted' = analysesStarted + 1

\* runAnalysisCycle up to its first await: the first pair's analysis starts.
runAnalysisCycle(c) == analyzePair(c, 1)

\* start(): nothing if already running; otherwise the first cycle runs at
\* once and the interval timer is armed.
Start ==
    /\ ~isRunning
    /\ NewCycle <= MaxCycles
    /\ isRunning' = TRUE
    /\ runAnalysisCycle(NewCycle)
    /\ analysisInterval' = TRUE
    /\ UNCHANGED liveSignals
    /\ LiveFrame

\* stop(): the timer is cleared; cycles that are running are left alone.
Stop ==
    /\ isRunning
    /\ isRunning' = FALSE
    /\ analysisInterval' = FALSE
    /\ UNCHANGED <<liveSignals, cycles, analysesStarted>>
    /\ LiveFrame

\* The interval timer fires, whether or not an earlier cycle has finished.
Tick ==
    /\ analysisInterval
    /\ NewCycle <= MaxCycles
    /\ runAnalysisCycle(NewCycle)
    /\ UNCHANGED <<isRunning, analysisInterval, liveSignals>>
    /\ LiveFrame

\* getMarketData resolves; makeDecision is called and awaited.
MarketDataArrives(c) ==
    /\ cycles[c].pc = "marketData"
    /\ cycles' = [cycles EXCEPT ![c].pc = "decision"]
    /\ UNCHANGED <<isRunning, analysisInterval, liveSignals, analysesStarted>>
    /\ LiveFrame

\* The for loop of runAnalysisCycle goes on to the next pair, or ends.
NextPair(c) ==
    IF cycles[c].index < Len(LivePairs)
    THEN analyzePair(c, cycles[c].index + 1)
    ELSE /\ cycles' = [cycles EXCEPT ![c].pc = "done"]
         /\ UNCHANGED analysesStarted

\* makeDecision resolves: the result is stored under the pair and the cycle
\* goes on.
DecisionArrives(c) ==
    /\ cycles[c].pc = "decision"
    /\ liveSignals' = [liveSignals EXCEPT ![LivePairs[cycles[c].index]] =
                          [cycle |-> c, started |-> cycles[c].started]]
    /\ NextPair(c)
    /\ UNCHANGED <<isRunning, analysisInterval>>
    /\ LiveFrame

\* getMarketData or makeDecision rejects: the cycle logs the error and goes on
\* without storing anything.
AnalysisFails(c) ==
    /\ cycles[c].pc \in {"marketData", "decision"}
    /\ NextPair(c)
    /\ UNCHANGED <<isRunning, analysisInterval, liveSignals>>
    /\ LiveFrame

NextLive ==
    \/ Start
    \/ Stop
    \/ Tick
    \/ \E c \in CycleIds : MarketDataArrives(c)
    \/ \E c \in CycleIds : DecisionArrives(c)
    \/ \E c \in CycleIds : AnalysisFails(c)

SpecLive == InitLive /\ [][NextLive]_vars

\* ------------------------------------------------------------------------
\* Multi-timeframe aggregation on its own: analyzeMultiTimeframe over every
\* combination of analyzed timeframes and trends.
\* ------------------------------------------------------------------------
TrendOptions == {TfAbsent} \cup {WithTrend(Bare, t) : t \in Trends}

TimeframeInputs ==
    {[kind |-> "timeframes",
      tf |-> [t \in {"4H", "1H", "15M", "5M"} |->
                 CASE t = "4H" -> a [] t = "1H" -> b [] t = "15M" -> c
                   [] OTHER -> d]] :
        a \in TrendOptions, b \in TrendOptions, c \in TrendOptions,
        d \in TrendOptions}

InitBias ==
    /\ engineInput \in TimeframeInputs
    /\ engineOutput = NoCall
    /\ LearnerUnused
    /\ LiveIdle
    /\ DecisionIdle

AnalyzeMultiTimeframe ==
    /\ engineInput.kind = "timeframes"
    /\ engineOutput = NoCall
    /\ engineOutput' = [kind |-> "analysis"] @@ analyzeMultiTimeframe(engineInput)
    /\ UNCHANGED engineInput
    /\ UNCHANGED <<sharedVars, learnerVars, concVars, decisionVars, liveVars>>

NextBias == AnalyzeMultiTimeframe

SpecBias == InitBias /\ [][NextBias]_vars

\* ------------------------------------------------------------------------
\* Structure detectors on a candle window that grows: the detectors are
\* applied to a window, a further candle arrives, and they are applied to the
\* longer window.  Candles are [open, high, low, close] with integer prices
\* (1000 = 1.000); indices are the 0-based array indices of the code.
\* ------------------------------------------------------------------------
DefaultLookback == 5

At(candles, i) == candles[i + 1]

\* The integers a, a+1, ..., b in order (empty when b < a).
Indices(a, b) == [k \in 1..(IF b >= a THEN b - a + 1 ELSE 0) |-> a + k - 1]

isSwingHigh(candles, index, lookback) ==
    LET currentHigh == At(candles, index).high
    IN  \A i \in (index - lookback)..(index + lookback - 1) :
            i = index \/ ~(At(candles, i).high >= currentHigh)

isSwingLow(candles, index, lookback) ==
    LET currentLow == At(candles, index).low
    IN  \A i \in (index - lookback)..(index + lookback - 1) :
            i = index \/ ~(At(candles, i).low <= currentLow)

SwingLoopIndicesInclusive(len, lookback) == Indices(lookback, len - lookback)

\* for (let i = lookback; i < candles.length - lookback; i++)
SwingLoopIndices(len, lookback) == Indices(lookback, len - lookback - 1)

identifySwingPoints(candles, lookback) ==
    LET loop == SwingLoopIndices(Len(candles), lookback)
        High(i) == isSwingHigh(candles, i, lookback)
        Low(i) == isSwingLow(candles, i, lookback)
        highIdx == SelectSeq(loop, High)
        lowIdx == SelectSeq(loop, Low)
    IN  [highs |-> [k \in 1..Len(highIdx) |->
                      [index |-> highIdx[k], price |-> At(candles, highIdx[k]).high]],
         lows |-> [k \in 1..Len(lowIdx) |->
                     [index |-> lowIdx[k], price |-> At(candles, lowIdx[k]).low]]]

\* Math.round of the non-negative quotient a / b.
Round(a, b) == (2 * a + b) \div (2 * b)

\* moveSize > 0.005 for a move of `move` from price `from`
StrongMove(move, from) == 1000 * move > 5 * from

\* The order blocks pushed by one iteration of the detection loop.
OrderBlocksAt(candles, i) ==
    LET current == At(candles, i)
        next == At(candles, i + 1)
        Block(type, move) ==
            [type |-> type, index |-> i, high |-> current.high, low |-> current.low,
             open |-> current.open, close |-> current.close,
             strength |-> Round(100 * move, next.open),
             mitigated |-> FALSE, tested |-> FALSE]
        bullish == IF /\ current.close < current.open /\ next.close > next.open
                      /\ StrongMove(next.close - next.open, next.open)
                   THEN <<Block("BULLISH_OB", next.close - next.open)>> ELSE <<>>
        bearish == IF /\ current.close > current.open /\ next.close < next.open
                      /\ StrongMove(next.open - next.close, next.open)
                   THEN <<Block("BEARISH_OB", next.open - next.close)>> ELSE <<>>
    IN  bullish \o bearish

RECURSIVE OrderBlocksFrom(_, _)
OrderBlocksFrom(candles, i) ==
    IF i >= Len(candles) - 1 THEN <<>>
    ELSE OrderBlocksAt(candles, i) \o OrderBlocksFrom(candles, i + 1)

MitigationScanOnlyLast(ob, len) == len - 1

\* for (let i = ob.index + 1; i < candles.length; i++)
MitigationScanStart(ob, len) == ob.index + 1

\* checkOrderBlockMitigation for one block: the scan stops at the first
\* candle that mitigates it.
checkOrderBlockMitigation(candles, ob) ==
    LET last == Len(candles) - 1
        scan == MitigationScanStart(ob, Len(candles))..last
        InZone(i) ==
            IF ob.type = "BULLISH_OB"
            THEN At(candles, i).low <= ob.high /\ At(candles, i).low >= ob.low
            ELSE At(candles, i).high >= ob.low /\ At(candles, i).high <= ob.high
        Mitigates(i) ==
            /\ InZone(i)
            /\ IF ob.type = "BULLISH_OB" THEN At(candles, i).close < ob.low
               ELSE At(candles, i).close > ob.high
        mitigating == {i \in scan : Mitigates(i)}
        stop == IF mitigating = {} THEN last
                ELSE CHOOSE i \in mitigating : \A j \in mitigating : i <= j
    IN  [ob EXCEPT !.tested = \E i \in scan : i <= stop /\ InZone(i),
                   !.mitigated = mitigating # {}]

detectOrderBlocks(candles) ==
    LET found == OrderBlocksFrom(candles, 2)
    IN  [k \in 1..Len(found) |-> checkOrderBlockMitigation(candles, found[k])]

\* The gaps pushed by one iteration of the detection loop.
FairValueGapsAt(candles, i) ==
    LET candle1 == At(candles, i - 2)
        candle3 == At(candles, i)
        bullish == IF candle1.high < candle3.low
                   THEN <<[type |-> "BULLISH_FVG", index |-> i - 1,
                           top |-> candle3.low, bottom |-> candle1.high,
                           size |-> candle3.low - candle1.high,
                           filled |-> FALSE, partiallyFilled |-> FALSE]>>
                   ELSE <<>>
        bearish == IF candle3.high < candle1.low
                   THEN <<[type |-> "BEARISH_FVG", index |-> i - 1,
                           top |-> candle1.low, bottom |-> candle3.high,
                           size |-> candle1.low - candle3.high,
                           filled |-> FALSE, partiallyFilled |-> FALSE]>>
                   ELSE <<>>
    IN  bullish \o bearish

RECURSIVE FairValueGapsFrom(_, _)
FairValueGapsFrom(candles, i) ==
    IF i >= Len(candles) THEN <<>>
    ELSE FairValueGapsAt(candles, i) \o FairValueGapsFrom(candles, i + 1)

\* checkFVGFill for one gap: the scan starts at fvg.index + 1 and stops at the
\* first candle that fills it; midPoint = (top + bottom) / 2.
checkFVGFill(candles, fvg) ==
    LET last == Len(candles) - 1
        scan == (fvg.index + 1)..last
        Touches(i) ==
            IF fvg.type = "BULLISH_FVG"
            THEN At(candles, i).low <= fvg.top /\ At(candles, i).low >= fvg.bottom
            ELSE At(candles, i).high >= fvg.bottom /\ At(candles, i).high <= fvg.top
        Fills(i) ==
            /\ Touches(i)
            /\ IF fvg.type = "BULLISH_FVG"
               THEN 2 * At(candles, i).low <= fvg.top + fvg.bottom
               ELSE 2 * At(candles, i).high >= fvg.top + fvg.bottom
        filling == {i \in scan : Fills(i)}
        stop == IF filling = {} THEN last
                ELSE CHOOSE i \in filling : \A j \in filling : i <= j
    IN  [fvg EXCEPT !.partiallyFilled = \E i \in scan : i <= stop /\ Touches(i),
                    !.filled = filling # {}]

detectFairValueGaps(candles) ==
    LET found == FairValueGapsFrom(candles, 2)
    IN  [k \in 1..Len(found) |-> checkFVGFill(candles, found[k])]

\* One round of the first loop of detectChangeOfCharacter, i counted as in the
\* code: prevLow = lows[i - 2], currentLow = lows[i - 1]. The event's strength,
\* a percentage derived from the same close and price, is left out.
BullishChochAt(candles, swingPoints, i) ==
    LET prevLow == swingPoints.lows[i - 1]
        currentLow == swingPoints.lows[i]
        Between(h) == h.index > prevLow.index /\ h.index < currentLow.index
        highsBetween == SelectSeq(swingPoints.highs, Between)
        lastHigh == highsBetween[Len(highsBetween)]
        breaking == {j \in currentLow.index..(Len(candles) - 1) :
                        At(candles, j).close > lastHigh.price}
    IN  IF /\ currentLow.price < prevLow.price
           /\ Len(highsBetween) > 0
           /\ breaking # {}
        THEN <<[type |-> "BULLISH_CHOCH", price |-> lastHigh.price,
                index |-> CHOOSE j \in breaking : \A m \in breaking : j <= m,
                direction |-> "BUY"]>>
        ELSE <<>>

\* for (let i = 2; i < swingPoints.lows.length; i++)
RECURSIVE BullishChochFrom(_, _, _)
BullishChochFrom(candles, swingPoints, i) ==
    IF i >= Len(swingPoints.lows) THEN <<>>
    ELSE BullishChochAt(candles, swingPoints, i)
             \o BullishChochFrom(candles, swingPoints, i + 1)

BearishChochAt(candles, swingPoints, i) ==
    LET prevHigh == swingPoints.highs[i - 1]
        currentHigh == swingPoints.highs[i]
        Between(l) == l.index > prevHigh.index /\ l.index < currentHigh.index
        lowsBetween == SelectSeq(swingPoints.lows, Between)
        lastLow == lowsBetween[Len(lowsBetween)]
        breaking == {j \in currentHigh.index..(Len(candles) - 1) :
                        At(candles, j).close < lastLow.price}
    IN  IF /\ currentHigh.price > prevHigh.price
           /\ Len(lowsBetween) > 0
           /\ breaking # {}
        THEN <<[type |-> "BEARISH_CHOCH", price |-> lastLow.price,
                index |-> CHOOSE j \in breaking : \A m \in breaking : j <= m,
                direction |-> "SELL"]>>
        ELSE <<>>

\* for (let i = 2; i < swingPoints.highs.length; i++)
RECURSIVE BearishChochFrom(_, _, _)
BearishChochFrom(candles, swingPoints, i) ==
    IF i >= Len(swingPoints.highs) THEN <<>>
    ELSE BearishChochAt(candles, swingPoints, i)
             \o BearishChochFrom(candles, swingPoints, i + 1)

\* The code takes its swing points with the default lookback; here the
\* lookback of the run is used, so that windows of a few candles have swing
\* points to pair.
detectChangeOfCharacter(candles, lookback) ==
    LET swingPoints == identifySwingPoints(candles, lookback)
    IN  BullishChochFrom(candles, swingPoints, 2)
            \o BearishChochFrom(candles, swingPoints, 2)

DetectStructures(candles, lookback) ==
    [kind |-> "structures",
     swingPoints |-> identifySwingPoints(candles, lookback),
     orderBlocks |-> detectOrderBlocks(candles),
     choch |-> detectChangeOfCharacter(candles, lookback),
     fvg |-> detectFairValueGaps(candles)]

\* Well-formed candles: a falling candle, a strong rising one, a pull-back
\* into the falling candle's range, a gap up, a candle into the gap, and a
\* strong falling candle that closes below all the others' lows.
Candle(o, h, l, c) == [open |-> o, high |-> h, low |-> l, close |-> c]

Candles ==
    {Candle(1010, 1011, 1004, 1005), Candle(1005, 1020, 1005, 1019),
     Candle(1015, 1016, 1008, 1012), Candle(1025, 1030, 1022, 1028),
     Candle(1020, 1021, 1014, 1015), Candle(1019, 1020, 1000, 1001)}

Lookbacks == {1, DefaultLookback}

InitStructure ==
    /\ engineInput \in [kind : {"candles"}, candles : {<<>>}, lookback : Lookbacks]
    /\ engineOutput = NoCall
    /\ LearnerUnused
    /\ LiveIdle
    /\ DecisionIdle

StructureFrame ==
    UNCHANGED <<sharedVars, learnerVars, concVars, decisionVars, liveVars>>

\* The detectors are applied to the window.
Detect ==
    /\ engineInput.kind = "candles"
    /\ engineOutput = NoCall
    /\ engineOutput' = DetectStructures(engineInput.candles, engineInput.lookback)
    /\ UNCHANGED engineInput
    /\ StructureFrame

\* A further candle has arrived and the longer window is scanned again.
Rescan(candle) ==
    /\ engineInput.kind = "candles"
    /\ engineOutput # NoCall
    /\ Len(engineInput.candles) < MaxCandles
    /\ engineInput' = [engineInput EXCEPT !.candles = Append(@, candle)]
    /\ engineOutput' = DetectStructures(engineInput'.candles, engineInput.lookback)
    /\ StructureFrame

NextStructure ==
    \/ Detect
    \/ \E candle \in Candles : Rescan(candle)

SpecStructure == InitStructure /\ [][NextStructure]_vars

\* ========================================================================
\* Properties of the learner
\* ========================================================================
One == Rat(1, 1)

ModelWeightsNormalized(mw) ==
    /\ \A m \in Models : RatLeq(MinModelWeight, mw[m]) /\ RatLeq(mw[m], MaxModelWeight)
    /\ RatSum3(mw) = One

\* C1: starting from the default weights, after any sequence of learnFromTrade
\* calls every timeframe weight and every pattern weight is within [0.5, 1.5],
\* every model weight is within [0.1, 0.6], and the model weights sum to 1.
C1_WeightsBounded ==
    /\ \A tf \in Timeframes :
           MinWeight <= timeframeWeights[tf] /\ timeframeWeights[tf] <= MaxWeight
    /\ \A p \in Patterns :
           MinWeight <= patternWeights[p] /\ patternWeights[p] <= MaxWeight
    /\ ModelWeightsNormalized(modelWeights)

\* A WIN with a technical confidence has just been learned on a timeframe and
\* a pattern that both already sat at the upper bound.
C1_Witness ==
    /\ learnerPc = "saving"
    /\ call.result = "WIN"
    /\ call.timeframe = "5M"
    /\ call.mlProbability = 100
    /\ call.smartMoneyPatterns = <<"BULLISH_OB", "BULLISH_OB">>
    /\ timeframeWeights["5M"] = MaxWeight
    /\ patternWeights["BULLISH_OB"] = MaxWeight
    /\ weightsFile.kind = "weights"
    /\ weightsFile.timeframeWeights["5M"] = MaxWeight
    /\ weightsFile.patternWeights["BULLISH_OB"] = MaxWeight

\* C6: learnFromTrade with result BREAKEVEN leaves every timeframe weight,
\* every pattern weight and every model weight as it was before the call.
C6_BreakevenIsNoOp ==
    [][(learnerPc = "idle" /\ learnerPc' = "saving" /\ call'.result = "BREAKEVEN")
          => UNCHANGED weightVars]_vars

RECURSIVE LearnAll(_, _)
LearnAll(w, n) == IF n = 0 THEN w ELSE Learn(LearnAll(w, n - 1), upTrade[n])

AllDone == \A u \in Updaters : upPc[u] = "done"

\* C7: after concurrent outcome recordings for different closed trades have
\* all completed, the in-memory WeightState and the persisted WeightState both
\* reflect every adjustment.  Stated on the timeframe and pattern weights,
\* whose adjustments are additive and so do not depend on the order in which
\* the recordings are applied.
C7_NoLostWeightUpdate ==
    AllDone =>
        LET both == LearnAll(PreviousRunWeights, NumUpdaters)
        IN  /\ timeframeWeights = both.timeframeWeights
            /\ patternWeights = both.patternWeights
            /\ weightsFile.kind = "weights"
            /\ weightsFile.timeframeWeights = both.timeframeWeights
            /\ weightsFile.patternWeights = both.patternWeights

\* ========================================================================
\* Properties of the decision engine
\* ========================================================================
Decided == decision.status # "NONE"

Conflicted(req) ==
    /\ req.tf["4H"].present /\ req.tf["1H"].present
    /\ req.tf["4H"].trend # "NEUTRAL" /\ req.tf["1H"].trend # "NEUTRAL"
    /\ req.tf["4H"].trend # req.tf["1H"].trend

\* C2: whenever the 4H and 1H trends are both non-neutral and different
\* (overall bias CONFLICTED), processDecision never returns APPROVED.
C2_ConflictIsVeto ==
    (Decided /\ Conflicted(request)) => decision.status # "APPROVED"

\* C3: if fewer than 2 of the 4 mandatory checks are true, processDecision
\* returns REJECTED, failedCriteria names every mandatory check that failed,
\* and no trade setup is emitted.
C3_MandatoryGate ==
    (Decided /\ MetCount(Criteria(request), MandatoryNames) < 2) =>
        /\ decision.status = "REJECTED"
        /\ {k \in MandatoryNames : Criteria(request)[k] # "true"}
               \subseteq decision.failedCriteria
        /\ decision.setup = NoSetup

\* Exactly one mandatory check passed and the call was rejected with the
\* other three named.
C3_Witness ==
    /\ decision.status = "REJECTED"
    /\ MetCount(Criteria(request), MandatoryNames) = 1
    /\ Cardinality(decision.failedCriteria \cap MandatoryNames) = 3
    /\ request.tf["5M"].present

GateOpen ==
    /\ Decided
    /\ decision.status # "THROWN"
    /\ consecutiveLosses < MaxConsecutiveLosses
    /\ MetCount(Criteria(request), MandatoryNames) >= 2

EightCriteria ==
    MandatoryNames \cup {"stopLossValid", "riskRewardOk", "fundamentalNotAgainst",
                         "correlationAligned"}

C5_LossCeilingRejects ==
    (Decided /\ consecutiveLosses >= MaxConsecutiveLosses) =>
        /\ decision.status = "REJECTED"
        /\ decision.setup = NoSetup

\* The counter sits exactly at the ceiling and rejects a request that a
\* fresh engine approves.
C5_Witness ==
    /\ consecutiveLosses = MaxConsecutiveLosses
    /\ decision.status = "REJECTED"
    /\ ~CriteriaThrow(request)
    /\ MetCount(Criteria(request), MandatoryNames) >= 2
    /\ ~SetupThrows(request)
    /\ MetCount(FinalCriteria(request), CriteriaNames) >= 6
    /\ ~SignalThrows(request)

\* C9: every REJECTED decision carries a non-empty failedCriteria list, and
\* every name in it is a criterion that was evaluated and found false.
C9_RejectionNamesFailures ==
    decision.status = "REJECTED" =>
        /\ decision.failedCriteria # {}
        /\ \A n \in decision.failedCriteria :
               n \in decision.evaluated /\ decision.criteria[n] = "false"

RequiredCandlesMissing(req) ==
    ~req.tf["4H"].present \/ ~req.tf["1H"].present \/ ~req.tf["5M"].present

\* C10: processDecision never raises: with a missing optional input a
\* decision is still returned, and with the candles of a required timeframe
\* missing the decision is REJECTED.
C10_NeverRaises ==
    Decided =>
        /\ decision.status # "THROWN"
        /\ RequiredCandlesMissing(request) => decision.status = "REJECTED"

ConfluenceScore(req) ==
    calculateConfluence(analyzeMultiTimeframe(req), req.technical, req)

\* Confluence is below the minimum while the other three mandatory checks,
\* the two setup checks, fundamental-not-opposed and correlation-allowed pass.
OnlyConfluenceFails(req) ==
    /\ ~CriteriaThrow(req)
    /\ ~SetupThrows(req)
    /\ ConfluenceScore(req) < MinConfluence
    /\ \A k \in EightCriteria \ {"confluenceOk"} : FinalCriteria(req)[k] = "true"

\* C11: whenever the confluence score is below the minimum and every other
\* check passes, processDecision returns REJECTED and the confluence
\* criterion is listed in failedCriteria.
C11_LowConfluenceRejects ==
    (Decided /\ consecutiveLosses < MaxConsecutiveLosses
             /\ OnlyConfluenceFails(request)) =>
        /\ decision.status = "REJECTED"
        /\ "confluenceOk" \in decision.failedCriteria

\* The risk:reward the module header promises ("RR minimo 3:1"), in hundredths.
PromisedRiskReward100 == 300

\* C12: every APPROVED signal has a risk:reward ratio of at least 3.
C12_ApprovedRiskRewardAtLeast3 ==
    decision.status = "APPROVED" =>
        decision.setup.riskReward >= PromisedRiskReward100

\* ========================================================================
\* Properties of learnFromTrade on WIN and LOSS
\* ========================================================================
LearnStep ==
    /\ learnerPc = "idle"
    /\ learnerPc' = "saving"
    /\ call'.result \in {"WIN", "LOSS"}

SignedRate(result) == IF result = "WIN" THEN LearningRate ELSE -LearningRate

Occurrences(tags, p) == Cardinality({i \in 1..Len(tags) : tags[i] = p})

\* The clamped adjustment applied n times in a row.
RECURSIVE AdjustedTimes(_, _, _)
AdjustedTimes(w, rate, n) ==
    IF n = 0 THEN w
    ELSE Clamp(MinWeight, MaxWeight, AdjustedTimes(w, rate, n - 1) + rate)

\* C13 as claimed: on a WIN or LOSS, learnFromTrade sets the weight of the
\* trade's timeframe and of each attached pattern tag to
\* clamp(w + reward * learningRate, 0.5, 1.5) and leaves every other timeframe
\* and pattern weight unchanged.
C13_LearnAdjustsOnce ==
    [][LearnStep =>
          LET rate == SignedRate(call'.result)
              tags == call'.smartMoneyPatterns
          IN  /\ \A tf \in Timeframes :
                    timeframeWeights'[tf] =
                        IF tf = call'.timeframe
                        THEN Clamp(MinWeight, MaxWeight, timeframeWeights[tf] + rate)
                        ELSE timeframeWeights[tf]
              /\ \A p \in Patterns :
                    patternWeights'[p] =
                        IF Occurrences(tags, p) > 0
                        THEN Clamp(MinWeight, MaxWeight, patternWeights[p] + rate)
                        ELSE patternWeights[p]]_vars

\* C13 as amended: the timeframe weight is adjusted once, and each pattern
\* weight is adjusted once per occurrence of its tag in the trade's list (a
\* tag listed twice is adjusted and clamped twice); a timeframe or tag without
\* a weight is skipped and every other weight is unchanged.
C13_LearnAdjustsPerOccurrence ==
    [][LearnStep =>
          LET rate == SignedRate(call'.result)
              tags == call'.smartMoneyPatterns
          IN  /\ \A tf \in Timeframes :
                    timeframeWeights'[tf] =
                        IF tf = call'.timeframe
                        THEN Clamp(MinWeight, MaxWeight, timeframeWeights[tf] + rate)
                        ELSE timeframeWeights[tf]
              /\ \A p \in Patterns :
                    patternWeights'[p] =
                        AdjustedTimes(patternWeights[p], rate, Occurrences(tags, p))
              /\ DOMAIN timeframeWeights' = Timeframes
              /\ DOMAIN patternWeights' = Patterns]_vars

\* Scenario C on the default weights: a LOSS on BULLISH_OB alone (timeframe
\* without a weight, no technical confidence) has been learned, 1.0 -> 0.95.
C13_Witness ==
    /\ learnerPc = "saving"
    /\ call.result = "LOSS"
    /\ call.smartMoneyPatterns = <<"BULLISH_OB">>
    /\ call.timeframe = "1D"
    /\ call.mlProbability = 0
    /\ patternWeights = [DefaultPatternWeights EXCEPT !["BULLISH_OB"] = 19]
    /\ timeframeWeights = DefaultTimeframeWeights
    /\ modelWeights = DefaultModelWeights

\* ========================================================================
\* Properties of start-up
\* ========================================================================
InBounds(w) == MinWeight <= w /\ w <= MaxWeight

\* C14: after loadModelWeights, whatever the weights file holds, every
\* timeframe and pattern has a weight in [0.5, 1.5], and the three model
\* weights are in [0.1, 0.6] and sum to 1.
C14_LoadRecoversFromCorruption ==
    initialized =>
        /\ DOMAIN timeframeWeights = Timeframes
        /\ \A t \in DOMAIN timeframeWeights : InBounds(timeframeWeights[t])
        /\ DOMAIN patternWeights = Patterns
        /\ \A q \in DOMAIN patternWeights : InBounds(patternWeights[q])
        /\ DOMAIN modelWeights = Models
        /\ \A m \in DOMAIN modelWeights :
               /\ RatLeq(MinModelWeight, modelWeights[m])
               /\ RatLeq(modelWeights[m], MaxModelWeight)
        /\ RatSum3(modelWeights) = One

\* ========================================================================
\* Properties of the multi-timeframe aggregation
\* ========================================================================
Analyzed == engineOutput.kind = "analysis"

BothCoarseAnalyzed ==
    Analyzed /\ engineInput.tf["4H"].present /\ engineInput.tf["1H"].present

Bias(direction, confidence) ==
    [kind |-> "bias", direction |-> direction, confidence |-> confidence]

\* C15 as claimed: equal non-neutral trends give that trend with confidence
\* 95; exactly one NEUTRAL trend, whichever of the two, gives the other trend
\* with confidence 75; different non-neutral trends give CONFLICTED with 30;
\* two NEUTRAL trends give NEUTRAL with 50.
C15_BiasTableSymmetric ==
    BothCoarseAnalyzed =>
        LET t4H == engineInput.tf["4H"].trend
            t1H == engineInput.tf["1H"].trend
        IN  engineOutput.overallBias =
                IF t4H = "NEUTRAL" /\ t1H = "NEUTRAL" THEN Bias("NEUTRAL", 50)
                ELSE IF t4H = t1H THEN Bias(t4H, 95)
                ELSE IF t1H = "NEUTRAL" THEN Bias(t4H, 75)
                ELSE IF t4H = "NEUTRAL" THEN Bias(t1H, 75)
                ELSE Bias("CONFLICTED", 30)

\* C15 as amended: as above, except that confidence 75 is given only when
\* the 4H trend is non-neutral and the 1H trend is NEUTRAL; a NEUTRAL 4H trend
\* with a non-neutral 1H trend gives NEUTRAL with confidence 50.
C15_BiasTable4HLeads ==
    BothCoarseAnalyzed =>
        LET t4H == engineInput.tf["4H"].trend
            t1H == engineInput.tf["1H"].trend
        IN  engineOutput.overallBias =
                IF t4H = "NEUTRAL" THEN Bias("NEUTRAL", 50)
                ELSE IF t4H = t1H THEN Bias(t4H, 95)
                ELSE IF t1H = "NEUTRAL" THEN Bias(t4H, 75)
                ELSE Bias("CONFLICTED", 30)

\* A NEUTRAL 4H trend with a BULLISH 1H trend has been aggregated to NEUTRAL.
C15_Witness ==
    /\ BothCoarseAnalyzed
    /\ engineInput.tf["4H"].trend = "NEUTRAL"
    /\ engineInput.tf["1H"].trend = "BULLISH"
    /\ engineOutput.overallBias = Bias("NEUTRAL", 50)

AnalyzedTrends ==
    {engineInput.tf[t].trend : t \in {u \in DOMAIN engineInput.tf :
                                         engineInput.tf[u].present}}

\* C16: the confidence returned by checkAlignment is within [0, 100], and it
\* is 100 if and only if every analyzed timeframe has the same non-neutral
\* trend (which no analyzed timeframe at all satisfies trivially).
C16_AlignmentConfidence ==
    Analyzed =>
        LET confidence == engineOutput.alignment.confidence
        IN  /\ RatLeq(Rat(0, 1), confidence)
            /\ RatLeq(confidence, Rat(100, 1))
            /\ confidence = Rat(100, 1)
                  <=> \E t \in {"BULLISH", "BEARISH"} : AnalyzedTrends \subseteq {t}

\* Three analyzed timeframes, all BEARISH, have been given confidence 100.
C16_Witness ==
    /\ Analyzed
    /\ Cardinality({u \in DOMAIN engineInput.tf : engineInput.tf[u].present}) = 3
    /\ AnalyzedTrends = {"BEARISH"}
    /\ engineOutput.alignment.confidence = Rat(100, 1)

\* ========================================================================
\* Properties of the trade setup
\* ========================================================================
OverallDirection(req) == analyzeMultiTimeframe(req).overallBias.direction

\* Indices of the unmitigated bullish 5M order blocks whose upper edge lies
\* strictly between the stop of a long trade and the current price.
BullishBlocksInReach(req) ==
    LET tf5M == req.tf["5M"]
        below == Scaled(tf5M.below)
        stop == IF Len(below) > 0 THEN SeqMin(Last3(below), req.close5M * 985)
                ELSE req.close5M * 985
    IN  {i \in 1..Len(tf5M.orderBlocks) :
            /\ tf5M.orderBlocks[i].type = "BULLISH_OB"
            /\ ~tf5M.orderBlocks[i].mitigated
            /\ stop < 1000 * tf5M.orderBlocks[i].high
            /\ 1000 * tf5M.orderBlocks[i].high < 1000 * req.close5M}

\* The mirror image for a short trade: lower edge between price and stop.
BearishBlocksInReach(req) ==
    LET tf5M == req.tf["5M"]
        above == Scaled(tf5M.above)
        stop == IF Len(above) > 0 THEN SeqMax(Last3(above), req.close5M * 1015)
                ELSE req.close5M * 1015
    IN  {i \in 1..Len(tf5M.orderBlocks) :
            /\ tf5M.orderBlocks[i].type = "BEARISH_OB"
            /\ ~tf5M.orderBlocks[i].mitigated
            /\ 1000 * req.close5M < 1000 * tf5M.orderBlocks[i].low
            /\ 1000 * tf5M.orderBlocks[i].low < stop}

\* C17: in the pipeline, with a bullish overall bias and an unmitigated
\* bullish 5M order block whose upper edge lies strictly between the stop and
\* the current price, the emitted setup is a LIMIT order at that edge; the
\* mirror rule holds for a bearish bias; otherwise it is a MARKET order at the
\* current price.
C17_LimitOrderAtOrderBlock ==
    decision.status = "APPROVED" =>
        LET blocks == request.tf["5M"].orderBlocks
            long == IF OverallDirection(request) = "BULLISH"
                    THEN BullishBlocksInReach(request) ELSE {}
            short == IF OverallDirection(request) = "BEARISH"
                     THEN BearishBlocksInReach(request) ELSE {}
        IN  IF long # {}
            THEN /\ decision.setup.orderType = "LIMIT"
                 /\ \E i \in long : decision.setup.entry = 1000 * blocks[i].high
            ELSE IF short # {}
            THEN /\ decision.setup.orderType = "LIMIT"
                 /\ \E i \in short : decision.setup.entry = 1000 * blocks[i].low
            ELSE /\ decision.setup.orderType = "MARKET"
                 /\ decision.setup.entry = 1000 * request.close5M

\* ========================================================================
\* Properties of the structure detectors
\* ========================================================================
Scanned == engineOutput.kind = "structures"

Window == engineInput.candles

Front(seq) == SubSeq(seq, 1, Len(seq) - 1)

\* Every structure of `before` is in `after` at the same position with the
\* same kind, candle index and bounds, and keeps the flags it has.
OrderBlocksKept(before, after) ==
    /\ Len(before) <= Len(after)
    /\ \A k \in 1..Len(before) :
          /\ after[k].type = before[k].type
          /\ after[k].index = before[k].index
          /\ after[k].high = before[k].high
          /\ after[k].low = before[k].low
          /\ before[k].mitigated => after[k].mitigated
          /\ before[k].tested => after[k].tested

FairValueGapsKept(before, after) ==
    /\ Len(before) <= Len(after)
    /\ \A k \in 1..Len(before) :
          /\ after[k].type = before[k].type
          /\ after[k].index = before[k].index
          /\ after[k].top = before[k].top
          /\ after[k].bottom = before[k].bottom
          /\ before[k].filled => after[k].filled
          /\ before[k].partiallyFilled => after[k].partiallyFilled

C19_ShortSeriesNoSwings ==
    (Scanned /\ Len(Window) < 2 * engineInput.lookback + 1) =>
        /\ Len(engineOutput.swingPoints.highs) = 0
        /\ Len(engineOutput.swingPoints.lows) = 0

\* Two candles with lookback 1, the second with the higher high and the
\* higher low, have been scanned: no swing point.
C19_Witness ==
    /\ Scanned
    /\ engineInput.lookback = 1
    /\ Len(Window) = 2
    /\ Window[2].high > Window[1].high
    /\ Window[1].low < Window[2].low
    /\ Len(engineOutput.swingPoints.highs) = 0
    /\ Len(engineOutput.swingPoints.lows) = 0

ReportedIndices(points) == {points[k].index : k \in 1..Len(points)}

\* C20: index i (lookback <= i < length - lookback) is reported as a swing
\* high iff candle i's high is strictly greater than the high of every other
\* candle at i-lookback .. i+lookback, both ends included; symmetrically for
\* swing lows with strictly lower lows.
C20_SwingPointWindow ==
    Scanned =>
        LET lookback == engineInput.lookback
        IN  \A i \in lookback..(Len(Window) - lookback - 1) :
                /\ i \in ReportedIndices(engineOutput.swingPoints.highs)
                      <=> \A j \in ((i - lookback)..(i + lookback)) \ {i} :
                              At(Window, i).high > At(Window, j).high
                /\ i \in ReportedIndices(engineOutput.swingPoints.lows)
                      <=> \A j \in ((i - lookback)..(i + lookback)) \ {i} :
                              At(Window, i).low < At(Window, j).low

\* Candle indices after the block at which the price is back inside the
\* block's [low, high] range.
ReEntries(ob) ==
    {i \in (ob.index + 1)..(Len(Window) - 1) :
        IF ob.type = "BULLISH_OB"
        THEN At(Window, i).low <= ob.high /\ At(Window, i).low >= ob.low
        ELSE At(Window, i).high >= ob.low /\ At(Window, i).high <= ob.high}

ClosedThrough(ob, j) ==
    IF ob.type = "BULLISH_OB" THEN At(Window, j).close < ob.low
    ELSE At(Window, j).close > ob.high

\* C21: a bullish order block that a later candle re-entered and below whose
\* low the price then closed, on that candle or a subsequent one, is reported
\* mitigated; symmetrically for a bearish block and a close above its high.
C21_MitigationDetected ==
    Scanned =>
        \A k \in 1..Len(engineOutput.orderBlocks) :
            LET ob == engineOutput.orderBlocks[k]
            IN  (\E i \in ReEntries(ob) :
                    \E j \in i..(Len(Window) - 1) : ClosedThrough(ob, j))
                    => ob.mitigated

\* Candles later than the three that form the gap: the gap's index is that of
\* the middle candle, so the third one is at index + 1.
LaterCandles(fvg) == (fvg.index + 2)..(Len(Window) - 1)

TradesInto(fvg, i) ==
    IF fvg.type = "BULLISH_FVG" THEN At(Window, i).low <= fvg.top
    ELSE At(Window, i).high >= fvg.bottom

PastMidPoint(fvg, i) ==
    IF fvg.type = "BULLISH_FVG" THEN 2 * At(Window, i).low <= fvg.top + fvg.bottom
    ELSE 2 * At(Window, i).high >= fvg.top + fvg.bottom

\* C22: a detected fair-value gap is partially filled exactly when a candle
\* later than its three forming candles trades into it, and filled exactly
\* when such a candle goes past its midpoint; an untouched gap has neither flag.
C22_FillTracking ==
    Scanned =>
        \A k \in 1..Len(engineOutput.fvg) :
            LET fvg == engineOutput.fvg[k]
            IN  /\ fvg.partiallyFilled <=>
                      \E i \in LaterCandles(fvg) : TradesInto(fvg, i)
                /\ fvg.filled <=>
                      \E i \in LaterCandles(fvg) : PastMidPoint(fvg, i)

\* The last swing point of `between` that lies strictly between two others.
LastBetween(between, first, second) ==
    LET inside == {k \in 1..Len(between) :
                      between[k].index > first.index /\ between[k].index < second.index}
    IN  IF inside = {} THEN 0 ELSE CHOOSE k \in inside : \A m \in inside : m <= k

\* The first candle at or after index `from` whose close breaks `price`
\* upwards (up = TRUE) or downwards; -1 when there is none.
FirstBreak(from, price, up) ==
    LET breaking == {j \in from..(Len(Window) - 1) :
                        IF up THEN At(Window, j).close > price
                        ELSE At(Window, j).close < price}
    IN  IF breaking = {} THEN -1 ELSE CHOOSE j \in breaking : \A m \in breaking : j <= m

Emitted(type, price, index) ==
    \E e \in 1..Len(engineOutput.choch) :
        /\ engineOutput.choch[e].type = type
        /\ engineOutput.choch[e].price = price
        /\ engineOutput.choch[e].index = index

SetupPresent(tf) == tf.present /\ (tf.fvg > 0 \/ tf.bos > 0 \/ tf.sweeps > 0)

Active(tf) == tf.present /\ \E i \in 1..Len(tf.orderBlocks) : ~tf.orderBlocks[i].mitigated

SameTrend(a, b) == a.present /\ b.present /\ a.trend = b.trend /\ a.trend # "NEUTRAL"

\* The seven conditions, numbered as listed, that hold for a request.
ListedConditions(req) ==
    LET smartMoney == analyzeMultiTimeframe(req)
        tf == req.tf
    IN  {n \in 1..7 :
            \/ n = 1 /\ smartMoney.overallBias.kind = "bias"
                     /\ smartMoney.overallBias.direction # "NEUTRAL"
            \/ n = 2 /\ RatLeq(Rat(40, 1), smartMoney.alignment.confidence)
            \/ n = 3 /\ tf["15M"].present /\ req.volume15M > 500
            \/ n = 4 /\ req.technical.confidence > 55
            \/ n = 5 /\ (SameTrend(tf["4H"], tf["1H"]) \/ SameTrend(tf["1H"], tf["15M"]))
            \/ n = 6 /\ (Active(tf["5M"]) \/ Active(tf["15M"]) \/ Active(tf["1H"]))
            \/ n = 7 /\ (SetupPresent(tf["5M"]) \/ SetupPresent(tf["15M"]))}

\* C24: the confluence score behind a decision's confluence criterion is the
\* number of the seven listed conditions that hold; a fair-value gap or break of structure
\* in the 5M or 15M analysis counts as the seventh even without a sweep.
C24_ConfluenceCountsSeven ==
    (Decided /\ "confluenceOk" \in decision.evaluated) =>
        ConfluenceScore(request) = Cardinality(ListedConditions(request))

\* ========================================================================
\* Properties of the fundamental veto
\* ========================================================================
\* Fundamentals with confidence above 70 point against the structural bias.
StronglyOpposed(req) ==
    /\ req.fundamental.kind = "full"
    /\ req.fundamental.confidence > 70
    /\ \/ req.fundamental.direction = "SELL" /\ OverallDirection(req) = "BULLISH"
       \/ req.fundamental.direction = "BUY" /\ OverallDirection(req) = "BEARISH"

Directional == {"BULLISH", "BUY", "BEARISH", "SELL"}

\* C28: every APPROVED decision is directional: the overall bias it rests on
\* and the direction of its trade setup are bullish/BUY or bearish/SELL,
\* never NEUTRAL.
C28_ApprovedIsDirectional ==
    decision.status = "APPROVED" =>
        /\ OverallDirection(request) \in Directional
        /\ decision.setup.direction \in Directional

\* ========================================================================
\* Properties of the trade history
\* ========================================================================
\* C29: after concurrent updateTradeResult calls for different open trades
\* have all completed, in any interleaving of their load and save steps, the
\* persisted history shows each trade with its recorded result; none is back
\* to OPEN.
C29_NoLostTradeRecord ==
    AllDone => \A u \in Updaters : historyFile[u] = upTrade[u].result

\* ========================================================================
\* Properties of the live analysis service
\* ========================================================================
\* C30: the result of an earlier-started analysis of a pair never overwrites
\* the stored result of a later-started analysis of that pair, under any
\* interleaving of cycles.
C30_LatestAnalysisWins ==
    [][\A p \in DOMAIN liveSignals :
          liveSignals'[p].started >= liveSignals[p].started]_vars

====
